---- MODULE Spec2Model ----
(***************************************************************************)
(* State machine of the App component of src/assets/App.tsx: two image     *)
(* slots filled by FileReader callbacks, a selected action, and the          *)
(* request outcome held in three independent useState cells (isLoading,    *)
(* error, generatedImage) that handleGenerate and its awaited              *)
(* generateContent call update.                                            *)
(*                                                                         *)
(* JavaScript strings are tuples of tokens, so that template literals are  *)
(* concatenations and String.split is computed; a nullable value is either *)
(* Null or a record.  State updates made by one handler run (or by one     *)
(* continuation after an await) are batched into one render, hence one     *)
(* step.  lastReader is a history variable: for each slot, readyState and  *)
(* result of the FileReader started last for it.  SpecReads records it;    *)
(* Spec and SpecHandler leave it alone and none of their properties reads  *)
(* it.                                                                     *)
(***************************************************************************)
EXTENDS Integers, Sequences, FiniteSets, TLC

VARIABLES image1, image2, selectedAction, generatedImage, isLoading, error,
          apiKey, lastReader, readers, inflight, calls, lastEvent

vars == <<image1, image2, selectedAction, generatedImage, isLoading, error,
          apiKey, lastReader, readers, inflight, calls, lastEvent>>

\* ---------------------------------------------------------------- bounds
\* number of FileReaders that may be reading at the same time
MaxReaders == 2
\* number of generateContent calls that may be issued in one run
MaxCalls == 2

\* ---------------------------------------------------------------- values
\* JavaScript null / undefined
Null == [null |-> TRUE]
\* a JavaScript string, as the tuple of its tokens
Str(tokens) == [str |-> tokens]
\* JavaScript truthiness of a nullable string or object
Truthy(v) == v /= Null /\ v /= Str(<<>>)

\* the three <option> values of the action <select>
Actions == {Str(<<"shaking hands">>), Str(<<"hugging each other">>),
            Str(<<"saluting each other">>)}

\* the values process.env.API_KEY may have in a build: unset, empty, set
ApiKeys == {Null, Str(<<>>), Str(<<"key">>)}

\* files the user can pick: a MIME type and the bytes
Files == {[type |-> "image/png", bytes |-> "ABC"],
          [type |-> "image/jpeg", bytes |-> "DEF"]}
NoFile == [type |-> "", bytes |-> ""]

\* base64 encoding of the bytes, as FileReader.readAsDataURL produces it
Base64(bytes) == CASE bytes = "ABC" -> "QUJD"
                   [] bytes = "DEF" -> "REVG"
                   [] OTHER -> ""

\* reader.result after a successful readAsDataURL
ReadAsDataURL(file) ==
    <<"data:", file.type, ";base64", ",", Base64(file.bytes)>>

\* String.prototype.split(sep): the segments between the separator tokens
RECURSIVE Split(_, _)
Split(s, sep) ==
    IF \A i \in 1..Len(s) : s[i] /= sep
    THEN <<s>>
    ELSE LET k == CHOOSE i \in 1..Len(s) :
                      s[i] = sep /\ \A j \in 1..(i - 1) : s[j] /= sep
         IN <<SubSeq(s, 1, k - 1)>> \o Split(SubSeq(s, k + 1, Len(s)), sep)

\* the concatenation of the tokens of a segment into one token, for a
\* segment that is a single token (the base64 body holds no separator)
Joined(seg) == IF Len(seg) = 1 THEN seg[1] ELSE "undefined"

\* (reader.result as string).split(',')[1]
Base64String(result) ==
    LET segs == Split(result, ",")
    IN IF Len(segs) >= 2 THEN Joined(segs[2]) ELSE "undefined"

\* ---------------------------------------------------------------- messages
MissingInputMsg == Str(<<"Please upload both images and select an action.">>)
ApiKeyMsg == Str(<<"API_KEY environment variable not set. Please configure it to use the Gemini API.">>)
NoImageMsg == Str(<<"The model did not return an image. Please try a different prompt or images.">>)
ReadFailedMsg == Str(<<"Failed to read image file.">>)
ErrorTexts == {"Failed to fetch", "quota exceeded"}
ErrorOccurredMsg(message) == Str(<<"An error occurred: ", message>>)

\* ---------------------------------------------------------------- requests
fileToGenerativePart(file) ==
    [inlineData |-> [data |-> file.base64, mimeType |-> file.mimeType]]

Prompt(action) ==
    <<"From the two images provided, create a new photorealistic image where the person from the first image and the person from the second image are ">>
    \o action.str
    \o <<". The background should be neutral and the interaction between the two people should look natural and believable.">>

\* the two image parts in the wrong order
Request_Swapped(img1, img2, action) ==
    [model |-> "gemini-2.5-flash-image",
     parts |-> <<fileToGenerativePart(img2), fileToGenerativePart(img1),
                 [text |-> Prompt(action)]>>]

\* the argument of ai.models.generateContent
Request(img1, img2, action) ==
    [model |-> "gemini-2.5-flash-image",
     parts |-> <<fileToGenerativePart(img1), fileToGenerativePart(img2),
                 [text |-> Prompt(action)]>>]

\* ---------------------------------------------------------------- responses
ImgA == [inlineData |-> [data |-> "AAAA", mimeType |-> "image/png"]]
ImgB == [inlineData |-> [data |-> "BBBB", mimeType |-> "image/jpeg"]]
Txt == [text |-> "sorry"]
Candidate(parts) == [content |-> [parts |-> parts]]

\* responses the service can return: no candidates, a candidate without
\* content, text only, images at several positions and in later candidates
Responses ==
    { [text |-> "none"],
      [candidates |-> <<[finishReason |-> "SAFETY"]>>],
      [candidates |-> <<Candidate(<<Txt>>)>>],
      [candidates |-> <<Candidate(<<Txt, ImgB, ImgA>>)>>],
      [candidates |-> <<Candidate(<<Txt>>), Candidate(<<ImgA>>)>>],
      [candidates |-> <<Candidate(<<ImgA, Txt>>), Candidate(<<ImgB>>)>>] }
NoResponse == [text |-> "no response"]

\* response.candidates?.[0]?.content?.parts ?? []
FirstParts(response) ==
    IF /\ "candidates" \in DOMAIN response
       /\ Len(response.candidates) >= 1
       /\ "content" \in DOMAIN response.candidates[1]
       /\ "parts" \in DOMAIN response.candidates[1].content
    THEN response.candidates[1].content.parts
    ELSE <<>>

\* if (part.inlineData)
HasInlineData(part) == "inlineData" \in DOMAIN part

\* the for loop without its break: the last inline part wins
FirstInlineIndex_NoBreak(parts) ==
    IF \E i \in 1..Len(parts) : HasInlineData(parts[i])
    THEN CHOOSE i \in 1..Len(parts) :
             HasInlineData(parts[i])
             /\ \A j \in (i + 1)..Len(parts) : ~HasInlineData(parts[j])
    ELSE 0

\* index of the part at which the for loop breaks, 0 when it runs to the end
FirstInlineIndex(parts) ==
    IF \E i \in 1..Len(parts) : HasInlineData(parts[i])
    THEN CHOOSE i \in 1..Len(parts) :
             HasInlineData(parts[i])
             /\ \A j \in 1..(i - 1) : ~HasInlineData(parts[j])
    ELSE 0

\* `data:${mimeType};base64,${base64ImageBytes}`
ImageUrl(part) ==
    Str(<<"data:", part.inlineData.mimeType, ";base64", ",", part.inlineData.data>>)

\* ---------------------------------------------------------------- events
Event(ev, slot, file, response) ==
    [ev |-> ev, slot |-> slot, file |-> file, response |-> response]

\* ---------------------------------------------------------------- state
Init ==
    /\ image1 = Null
    /\ image2 = Null
    /\ selectedAction = Str(<<"shaking hands">>)
    /\ generatedImage = Null
    /\ isLoading = FALSE
    /\ error = Null
    /\ apiKey \in ApiKeys
    /\ lastReader = <<[readyState |-> "EMPTY", result |-> Null],
                    [readyState |-> "EMPTY", result |-> Null]>>
    /\ readers = <<>>
    /\ inflight = {}
    /\ calls = 0
    /\ lastEvent = Event("init", 0, NoFile, NoResponse)

Slot(s) == IF s = 1 THEN image1 ELSE image2

\* both uploaders wired to setImage1
setImageState_AlwaysFirst(s, payload) ==
    image1' = payload /\ UNCHANGED image2

\* setImage1 / setImage2, as passed to handleImageChange
setImageState(s, payload) ==
    IF s = 1
    THEN image1' = payload /\ UNCHANGED image2
    ELSE image2' = payload /\ UNCHANGED image1

\* handleFileChange -> handleImageChange: the FileReader is created and
\* readAsDataURL starts the asynchronous read; readers lists the pending
\* FileReaders in the order of their selection
StartReadStep(s, file) ==
    /\ Len(readers) < MaxReaders
    /\ readers' = Append(readers, [slot |-> s, file |-> file])
    /\ lastEvent' = Event("select", s, NoFile, NoResponse)
    /\ UNCHANGED <<image1, image2, selectedAction, generatedImage, isLoading,
                   error, apiKey, inflight, calls>>

StartRead(s, file) ==
    /\ StartReadStep(s, file)
    /\ UNCHANGED lastReader

\* handleFileChange -> handleImageChange: the try block throws and the
\* catch clause reports it; no read is started
ReadThrows(s, file) ==
    /\ error' = ReadFailedMsg
    /\ lastEvent' = Event("readthrow", s, NoFile, NoResponse)
    /\ UNCHANGED <<image1, image2, selectedAction, generatedImage, isLoading,
                   apiKey, lastReader, readers, inflight, calls>>

\* the pending readers without the i-th
Without(seq, i) == SubSeq(seq, 1, i - 1) \o SubSeq(seq, i + 1, Len(seq))

\* reader.onloadend of the i-th pending reader after a successful read
LoadEndStep(i) ==
    /\ i \in 1..Len(readers)
    /\ readers' = Without(readers, i)
    /\ LET r == readers[i]
       IN /\ setImageState(r.slot,
                           [base64 |-> Base64String(ReadAsDataURL(r.file)),
                            mimeType |-> r.file.type])
          /\ lastEvent' = Event("loadend", r.slot, r.file, NoResponse)
    /\ UNCHANGED <<selectedAction, generatedImage, isLoading, error, apiKey,
                   inflight, calls>>

LoadEnd(i) ==
    /\ LoadEndStep(i)
    /\ UNCHANGED lastReader

\* reader.onloadend of the i-th pending reader after a failed read:
\* reader.result is null, so .split throws a TypeError inside the callback,
\* outside the try block
LoadEndErrorStep(i) ==
    /\ i \in 1..Len(readers)
    /\ readers' = Without(readers, i)
    /\ lastEvent' = Event("loaderror", readers[i].slot, NoFile, NoResponse)
    /\ UNCHANGED <<image1, image2, selectedAction, generatedImage, isLoading,
                   error, apiKey, inflight, calls>>

\* an onloadend that stores null in the slot when the read failed
LoadEndError_ClearsSlot(i) ==
    /\ i \in 1..Len(readers)
    /\ readers' = Without(readers, i)
    /\ setImageState(readers[i].slot, Null)
    /\ lastEvent' = Event("loaderror", readers[i].slot, NoFile, NoResponse)
    /\ UNCHANGED <<selectedAction, generatedImage, isLoading,
                   error, apiKey, lastReader, inflight, calls>>

LoadEndError(i) ==
    /\ LoadEndErrorStep(i)
    /\ UNCHANGED lastReader

\* the i-th pending reader is the one started last for its slot
IsLatest(i) ==
    /\ lastReader[readers[i].slot].readyState = "LOADING"
    /\ \A j \in (i + 1)..Len(readers) : readers[j].slot /= readers[i].slot

\* lastReader after the i-th pending reader has finished with reader.result
\* result
Finished(i, result) ==
    IF IsLatest(i)
    THEN [lastReader EXCEPT ![readers[i].slot] =
                                [readyState |-> "DONE", result |-> result]]
    ELSE lastReader

\* the three FileReader steps, with lastReader recording readyState and
\* result of the reader started last for each slot
StartReadTracked(s, file) ==
    /\ StartReadStep(s, file)
    /\ lastReader' = [lastReader EXCEPT
                          ![s] = [readyState |-> "LOADING", result |-> Null]]

LoadEndTracked(i) ==
    /\ LoadEndStep(i)
    /\ lastReader' = Finished(i, Str(ReadAsDataURL(readers[i].file)))

LoadEndErrorTracked(i) ==
    /\ LoadEndErrorStep(i)
    /\ lastReader' = Finished(i, Null)

\* onChange of the action <select>
ChangeAction(a) ==
    /\ a \in Actions
    /\ selectedAction' = a
    /\ lastEvent' = Event("action", 0, NoFile, NoResponse)
    /\ UNCHANGED <<image1, image2, generatedImage, isLoading, error, apiKey,
                   lastReader,
                   readers, inflight, calls>>

\* !image1 || !image2 || !selectedAction
MissingInput == ~Truthy(image1) \/ ~Truthy(image2) \/ ~Truthy(selectedAction)

\* a check that tests the key against undefined only
MissingApiKey_UndefinedOnly == apiKey = Null

\* !process.env.API_KEY
MissingApiKey == ~Truthy(apiKey)

\* handleGenerate with setIsLoading(true) hoisted above the two guards
handleGenerate_LoadingFirst ==
    /\ lastEvent' = Event("generate", 0, NoFile, NoResponse)
    /\ isLoading' = TRUE
    /\ IF MissingInput
       THEN /\ error' = MissingInputMsg
            /\ UNCHANGED <<generatedImage, inflight, calls>>
       ELSE IF MissingApiKey
       THEN /\ error' = ApiKeyMsg
            /\ UNCHANGED <<generatedImage, inflight, calls>>
       ELSE /\ calls < MaxCalls
            /\ error' = Null
            /\ generatedImage' = Null
            /\ calls' = calls + 1
            /\ inflight' = inflight \cup
                   {[id |-> calls + 1,
                     request |-> Request(image1, image2, selectedAction)]}
    /\ UNCHANGED <<image1, image2, selectedAction, apiKey, lastReader, readers>>

\* handleGenerate without setError(null) and setGeneratedImage(null)
handleGenerate_NoClear ==
    /\ lastEvent' = Event("generate", 0, NoFile, NoResponse)
    /\ IF MissingInput
       THEN /\ error' = MissingInputMsg
            /\ UNCHANGED <<isLoading, generatedImage, inflight, calls>>
       ELSE IF MissingApiKey
       THEN /\ error' = ApiKeyMsg
            /\ UNCHANGED <<isLoading, generatedImage, inflight, calls>>
       ELSE /\ calls < MaxCalls
            /\ isLoading' = TRUE
            /\ UNCHANGED <<error, generatedImage>>
            /\ calls' = calls + 1
            /\ inflight' = inflight \cup
                   {[id |-> calls + 1,
                     request |-> Request(image1, image2, selectedAction)]}
    /\ UNCHANGED <<image1, image2, selectedAction, apiKey, lastReader, readers>>

\* handleGenerate whose guards return without reporting
handleGenerate_SilentReturn ==
    /\ lastEvent' = Event("generate", 0, NoFile, NoResponse)
    /\ IF MissingInput \/ MissingApiKey
       THEN UNCHANGED <<error, isLoading, generatedImage, inflight, calls>>
       ELSE /\ calls < MaxCalls
            /\ isLoading' = TRUE
            /\ error' = Null
            /\ generatedImage' = Null
            /\ calls' = calls + 1
            /\ inflight' = inflight \cup
                   {[id |-> calls + 1,
                     request |-> Request(image1, image2, selectedAction)]}
    /\ UNCHANGED <<image1, image2, selectedAction, apiKey, lastReader, readers>>

\* the synchronous part of handleGenerate, up to the await
handleGenerate ==
    /\ lastEvent' = Event("generate", 0, NoFile, NoResponse)
    /\ IF MissingInput
       THEN /\ error' = MissingInputMsg
            /\ UNCHANGED <<isLoading, generatedImage, inflight, calls>>
       ELSE IF MissingApiKey
       THEN /\ error' = ApiKeyMsg
            /\ UNCHANGED <<isLoading, generatedImage, inflight, calls>>
       ELSE /\ calls < MaxCalls
            /\ isLoading' = TRUE
            /\ error' = Null
            /\ generatedImage' = Null
            /\ calls' = calls + 1
            /\ inflight' = inflight \cup
                   {[id |-> calls + 1,
                     request |-> Request(image1, image2, selectedAction)]}
    /\ UNCHANGED <<image1, image2, selectedAction, apiKey, lastReader, readers>>

\* a button that also stays disabled while an error is displayed
ButtonDisabled_WhileError ==
    isLoading \/ ~Truthy(image1) \/ ~Truthy(image2) \/ error /= Null

\* a button disabled only while a slot is empty
ButtonDisabled_NoLoading == ~Truthy(image1) \/ ~Truthy(image2)

\* disabled={isLoading || !image1 || !image2}
ButtonDisabled == isLoading \/ ~Truthy(image1) \/ ~Truthy(image2)

\* a click on the "Fuse Images" button
ClickGenerate ==
    /\ ~ButtonDisabled
    /\ handleGenerate

\* the continuation without the if (!generatedImageFound) report
Settle_NoReport(c, response) ==
    /\ c \in inflight
    /\ inflight' = inflight \ {c}
    /\ LET parts == FirstParts(response)
           k == FirstInlineIndex(parts)
       IN IF k > 0
          THEN generatedImage' = ImageUrl(parts[k]) /\ UNCHANGED error
          ELSE UNCHANGED <<error, generatedImage>>
    /\ isLoading' = FALSE
    /\ lastEvent' = Event("response", 0, NoFile, response)
    /\ UNCHANGED <<image1, image2, selectedAction, apiKey, lastReader, readers,
                   calls>>

\* the continuation of handleGenerate when generateContent resolves
Settle(c, response) ==
    /\ c \in inflight
    /\ inflight' = inflight \ {c}
    /\ LET parts == FirstParts(response)
           k == FirstInlineIndex(parts)
       IN IF k > 0
          THEN generatedImage' = ImageUrl(parts[k]) /\ UNCHANGED error
          ELSE error' = NoImageMsg /\ UNCHANGED generatedImage
    /\ isLoading' = FALSE
    /\ lastEvent' = Event("response", 0, NoFile, response)
    /\ UNCHANGED <<image1, image2, selectedAction, apiKey, lastReader, readers,
                   calls>>

\* a catch clause that issues the call again before giving up
Reject_Retry(c, message) ==
    /\ c \in inflight
    /\ IF calls < MaxCalls
       THEN /\ inflight' = (inflight \ {c}) \cup
                               {[id |-> calls + 1, request |-> c.request]}
            /\ calls' = calls + 1
            /\ UNCHANGED <<error, isLoading>>
       ELSE /\ inflight' = inflight \ {c}
            /\ error' = ErrorOccurredMsg(message)
            /\ isLoading' = FALSE
            /\ UNCHANGED calls
    /\ lastEvent' = Event("reject", 0, NoFile, [message |-> message])
    /\ UNCHANGED <<image1, image2, selectedAction, generatedImage, apiKey,
                   lastReader,
                   readers>>

\* the continuation of handleGenerate when generateContent rejects; the
\* event records the error object thrown
Reject(c, message) ==
    /\ c \in inflight
    /\ inflight' = inflight \ {c}
    /\ error' = ErrorOccurredMsg(message)
    /\ isLoading' = FALSE
    /\ lastEvent' = Event("reject", 0, NoFile, [message |-> message])
    /\ UNCHANGED <<image1, image2, selectedAction, generatedImage, apiKey,
                   lastReader,
                   readers, calls>>

Next ==
    \/ \E s \in {1, 2}, f \in Files : StartRead(s, f)
    \/ \E s \in {1, 2}, f \in Files : ReadThrows(s, f)
    \/ \E i \in 1..Len(readers) : LoadEnd(i)
    \/ \E i \in 1..Len(readers) : LoadEndError(i)
    \/ \E a \in Actions : ChangeAction(a)
    \/ ClickGenerate
    \/ \E c \in inflight, resp \in Responses : Settle(c, resp)
    \/ \E c \in inflight, m \in ErrorTexts : Reject(c, m)

Spec == Init /\ [][Next]_vars

\* handleGenerate run on its own guards alone, without the slot tests of the
\* button's disabled attribute, whenever no call is pending
CallGenerate ==
    /\ ~isLoading
    /\ handleGenerate

NextHandler ==
    \/ \E s \in {1, 2}, f \in Files : StartRead(s, f)
    \/ \E s \in {1, 2}, f \in Files : ReadThrows(s, f)
    \/ \E i \in 1..Len(readers) : LoadEnd(i)
    \/ \E i \in 1..Len(readers) : LoadEndError(i)
    \/ \E a \in Actions : ChangeAction(a)
    \/ CallGenerate
    \/ \E c \in inflight, resp \in Responses : Settle(c, resp)
    \/ \E c \in inflight, m \in ErrorTexts : Reject(c, m)

SpecHandler == Init /\ [][NextHandler]_vars

\* the program of Spec with lastReader recorded
NextReads ==
    \/ \E s \in {1, 2}, f \in Files : StartReadTracked(s, f)
    \/ \E s \in {1, 2}, f \in Files : ReadThrows(s, f)
    \/ \E i \in 1..Len(readers) : LoadEndTracked(i)
    \/ \E i \in 1..Len(readers) : LoadEndErrorTracked(i)
    \/ \E a \in Actions : ChangeAction(a)
    \/ ClickGenerate
    \/ \E c \in inflight, resp \in Responses : Settle(c, resp)
    \/ \E c \in inflight, m \in ErrorTexts : Reject(c, m)

SpecReads == Init /\ [][NextReads]_vars

\* ================================================================ claims

\* the outcome variants of the spec, read off the three state cells
Loading == isLoading
Success == generatedImage /= Null
Failure == error /= Null

\* the messages a fusion request can leave in error
RequestMsgs ==
    {MissingInputMsg, ApiKeyMsg, NoImageMsg}
    \cup {Str(<<"An error occurred: ", m>>) : m \in ErrorTexts}

\* the step just taken ran the handler named ev
Did(ev) == lastEvent'.ev = ev

\* C1: in every reachable state at most one of Loading, Failure and Success
\* is active: never Loading with an error or an image, never an error with
\* an image.
C1_OutcomeExclusive ==
    /\ ~(Loading /\ Failure)
    /\ ~(Loading /\ Success)
    /\ ~(Failure /\ Success)

\* C2: a dispatch with both slots populated, an action and a credential
\* makes the outcome Loading, and when the call settles the outcome is
\* exactly one of Success and Failure with isLoading false.
C2_DispatchThenOneOutcome ==
    [][ /\ (Did("generate") /\ ~MissingInput /\ ~MissingApiKey) => isLoading'
        /\ (Did("response") \/ Did("reject")) =>
               (~isLoading' /\ (Success' /= Failure')) ]_vars

\* C3: handleGenerate run while slot 1 or slot 2 is empty issues no
\* generation call and leaves the outcome Failure with the message
\* "Please upload both images and select an action."
C3_EmptySlotRejected ==
    [][ (Did("generate") /\ (image1 = Null \/ image2 = Null)) =>
            /\ error' = Str(<<"Please upload both images and select an action.">>)
            /\ ~isLoading'
            /\ generatedImage' = Null
            /\ calls' = calls
            /\ inflight' = {} ]_vars

C3_Witness ==
    /\ lastEvent.ev = "generate"
    /\ image1 /= Null
    /\ image2 = Null
    /\ error = MissingInputMsg
    /\ calls = 0

\* C4: a dispatch with both slots populated and no API credential yields
\* Failure at once and issues no generation call; without a credential the
\* outcome is never Loading.
C4_NoCredentialRejected ==
    /\ []((apiKey = Null \/ apiKey = Str(<<>>)) =>
              (~isLoading /\ calls = 0 /\ inflight = {}))
    /\ [][ (/\ Did("generate")
            /\ image1 /= Null /\ image2 /= Null
            /\ (apiKey = Null \/ apiKey = Str(<<>>))) =>
               /\ error' = ApiKeyMsg
               /\ ~isLoading'
               /\ generatedImage' = Null
               /\ calls' = calls ]_vars

C4_Witness ==
    /\ lastEvent.ev = "generate"
    /\ image1 /= Null /\ image2 /= Null
    /\ apiKey = Str(<<>>)
    /\ error = ApiKeyMsg
    /\ ~isLoading

\* C5: while the outcome is Loading no fusion request is dispatched, so at
\* most one generation call is in flight in every reachable state.
C5_OneCallInFlight ==
    /\ [](Cardinality(inflight) <= 1)
    /\ [][ isLoading => (calls' = calls /\ inflight' \subseteq inflight) ]_vars

C5_Witness ==
    /\ isLoading
    /\ Cardinality(inflight) = 1
    /\ calls >= 2
    /\ lastEvent.ev /= "generate"

\* C6: when the first candidate of the response holds an inline-image part,
\* the image set is data:<mimeType>;base64,<data> of the first such part;
\* later parts and later candidates are ignored.
C6_FirstInlineImage ==
    [][ Did("response") =>
          LET r == lastEvent'.response
          IN ("candidates" \in DOMAIN r /\ Len(r.candidates) >= 1
              /\ "content" \in DOMAIN r.candidates[1]) =>
                \A i \in 1..Len(r.candidates[1].content.parts) :
                   LET ps == r.candidates[1].content.parts
                   IN ("inlineData" \in DOMAIN ps[i]
                       /\ \A j \in 1..(i - 1) : "inlineData" \notin DOMAIN ps[j]) =>
                         /\ generatedImage' =
                               Str(<<"data:", ps[i].inlineData.mimeType,
                                     ";base64", ",", ps[i].inlineData.data>>)
                         /\ ~isLoading' ]_vars

C6_Witness ==
    /\ lastEvent.ev = "response"
    /\ lastEvent.response = [candidates |-> <<Candidate(<<Txt, ImgB, ImgA>>)>>]
    /\ generatedImage = Str(<<"data:", "image/jpeg", ";base64", ",", "BBBB">>)
    /\ error = Null

\* every part of every candidate of a response
AllParts(r) ==
    IF "candidates" \in DOMAIN r
    THEN UNION { IF "content" \in DOMAIN r.candidates[i]
                 THEN {r.candidates[i].content.parts[j] :
                          j \in 1..Len(r.candidates[i].content.parts)}
                 ELSE {} : i \in 1..Len(r.candidates) }
    ELSE {}

\* C7: when no part of the response carries inline image data, the outcome
\* is Failure with the message "The model did not return an image. Please
\* try a different prompt or images." and no image is set.
C7_NoImageFailure ==
    [][ (Did("response")
         /\ \A part \in AllParts(lastEvent'.response) :
                "inlineData" \notin DOMAIN part) =>
            /\ error' = Str(<<"The model did not return an image. Please try a different prompt or images.">>)
            /\ generatedImage' = Null
            /\ ~isLoading' ]_vars

C7_Witness ==
    /\ lastEvent.ev = "response"
    /\ lastEvent.response = [candidates |-> <<Candidate(<<Txt>>)>>]
    /\ error = NoImageMsg
    /\ generatedImage = Null
    /\ ~isLoading

\* C8: a re-dispatch clears the previous image and message before the new
\* Loading phase: while the outcome is Loading there is no image and no
\* message left by a request.
C8_NoStaleResultWhileLoading ==
    isLoading => (generatedImage = Null /\ error \notin RequestMsgs)

C8_Witness ==
    /\ isLoading
    /\ lastEvent.ev = "generate"
    /\ calls >= 2
    /\ generatedImage = Null
    /\ error = Null

\* C9: when reading a selected file fails, "Failed to read image file." is
\* the displayed error and the slot of the selection is left as it was.
C9_ReadFailureSurfaced ==
    [][ (Did("readthrow") \/ Did("loaderror")) =>
            /\ error' = ReadFailedMsg
            /\ image1' = image1
            /\ image2' = image2 ]_vars

\* the step just taken belongs to a file selection for slot s
FileStep(s) ==
    /\ lastEvent'.slot = s
    /\ Did("select") \/ Did("readthrow") \/ Did("loadend") \/ Did("loaderror")

\* C10: a file selection for one slot, whether its read succeeds or fails,
\* never changes the other slot, the selected action or the generated
\* image; a successful read overwrites the payload of its own slot only.
C10_FileSelectionFrame ==
    [][ \A s \in {1, 2} : FileStep(s) =>
            /\ Slot(3 - s)' = Slot(3 - s)
            /\ selectedAction' = selectedAction
            /\ generatedImage' = generatedImage
            /\ isLoading' = isLoading
            /\ Did("loadend") =>
                   /\ Slot(s)' = [base64 |-> Base64(lastEvent'.file.bytes),
                                  mimeType |-> lastEvent'.file.type]
                   /\ error' = error
            /\ ~Did("loadend") => Slot(s)' = Slot(s) ]_vars

C10_Witness ==
    /\ lastEvent.ev = "loadend"
    /\ lastEvent.slot = 2
    /\ image1 = [base64 |-> "QUJD", mimeType |-> "image/png"]
    /\ image2 = [base64 |-> "REVG", mimeType |-> "image/jpeg"]
    /\ generatedImage /= Null

\* C11: each dispatch issues at most one generation call; when the call
\* rejects, the outcome is Failure with "An error occurred: " followed by
\* the text of the error thrown, and no call is made until the next
\* dispatch.
C11_RejectIsTerminal ==
    [][ /\ Did("reject") =>
               /\ error' = Str(<<"An error occurred: ">>
                               \o <<lastEvent'.response.message>>)
               /\ ~isLoading'
               /\ generatedImage' = Null
               /\ inflight' = {}
        /\ calls' /= calls => (Did("generate") /\ calls' = calls + 1)
        /\ \A c \in inflight' : c \in inflight \/ Did("generate") ]_vars

C11_Witness ==
    /\ lastEvent.ev = "reject"
    /\ error = Str(<<"An error occurred: ", "quota exceeded">>)
    /\ ~isLoading
    /\ inflight = {}
    /\ calls = 1

\* both slots hold a payload
BothSlots == image1 /= Null /\ image2 /= Null

\* C12 as stated: whatever error came before, with both slots populated and
\* no call in flight a dispatch moves the outcome to Loading.
C12_RetryReachesLoading ==
    [][ (Did("generate") /\ BothSlots /\ ~isLoading) => isLoading' ]_vars

\* C12, amended: with both slots populated and no call in flight the
\* trigger is enabled whatever error is displayed, and a dispatch moves the
\* outcome to Loading when an API credential is configured; without one it
\* yields the credential Failure again.
C12_RetryNeverBlocked ==
    /\ []((BothSlots /\ ~isLoading /\ calls < MaxCalls) => ENABLED ClickGenerate)
    /\ [][ (Did("generate") /\ BothSlots /\ ~isLoading) =>
              IF apiKey = Null \/ apiKey = Str(<<>>)
              THEN error' = ApiKeyMsg /\ ~isLoading'
              ELSE isLoading' /\ error' = Null /\ calls' = calls + 1 ]_vars

C12_Witness ==
    /\ lastEvent.ev = "generate"
    /\ isLoading
    /\ error = Null
    /\ calls = 2
    /\ Cardinality(inflight) = 1
    /\ readers = <<>>

\* C13: every dispatch, also one rejected on a precondition, resets the
\* prior outcome: after it there is no image, and the only message is the
\* one this dispatch reports.
C13_DispatchResetsOutcome ==
    [][ Did("generate") =>
           /\ generatedImage' = Null
           /\ IF image1 = Null \/ image2 = Null
              THEN error' = MissingInputMsg
              ELSE IF apiKey = Null \/ apiKey = Str(<<>>)
              THEN error' = ApiKeyMsg
              ELSE error' = Null ]_vars

C13_Witness ==
    /\ lastEvent.ev = "generate"
    /\ image1 = Null
    /\ image2 /= Null
    /\ error = MissingInputMsg
    /\ generatedImage = Null

\* C14: the generation call carries slot 1's payload, slot 2's payload and
\* the prompt with the selected action, in this order, as they were at the
\* dispatch; no later event alters a request in flight.
C14_RequestCapturedAtDispatch ==
    [][ /\ (Did("generate") /\ calls' /= calls) =>
               \E c \in inflight' :
                  /\ c.id = calls'
                  /\ Len(c.request.parts) = 3
                  /\ c.request.parts[1] =
                         [inlineData |-> [data |-> image1.base64,
                                          mimeType |-> image1.mimeType]]
                  /\ c.request.parts[2] =
                         [inlineData |-> [data |-> image2.base64,
                                          mimeType |-> image2.mimeType]]
                  /\ Len(c.request.parts[3].text) = 3
                  /\ <<c.request.parts[3].text[2]>> = selectedAction.str
        /\ \A c \in inflight :
               (\E d \in inflight' : d.id = c.id) => c \in inflight' ]_vars

C14_Witness ==
    /\ isLoading
    /\ lastEvent.ev = "action"
    /\ \E c \in inflight :
          /\ c.request.parts[1].inlineData.data /= image1.base64
          /\ c.request.parts[2].inlineData.data = image2.base64
          /\ <<c.request.parts[3].text[2]>> /= selectedAction.str

\* no FileReader is pending for slot s
NoneReading(s) == \A i \in 1..Len(readers) : readers[i].slot /= s

\* C15: when reads for the same slot overlap, once none is pending the slot
\* holds the payload of the file selected last, in whatever order the reads
\* completed.
C15_LastSelectionWins ==
    \A s \in {1, 2} :
       (/\ NoneReading(s)
        /\ lastReader[s].readyState = "DONE"
        /\ lastReader[s].result /= Null) =>
           /\ Slot(s) /= Null
           /\ lastReader[s].result.str =
                 <<"data:", Slot(s).mimeType, ";base64", ",", Slot(s).base64>>

\* C16: a populated slot never returns to empty, the selected action is
\* always one of the three phrases, and once both slots are populated no
\* dispatch fails the both-images-and-action precondition.
C16_SlotsStayPopulated ==
    /\ [](selectedAction \in {Str(<<"shaking hands">>),
                              Str(<<"hugging each other">>),
                              Str(<<"saluting each other">>)})
    /\ [][ /\ image1 /= Null => image1' /= Null
           /\ image2 /= Null => image2' /= Null
           /\ (BothSlots /\ Did("generate")) =>
                  error' /= MissingInputMsg ]_vars

C16_Witness ==
    /\ lastEvent.ev = "generate"
    /\ BothSlots
    /\ selectedAction = Str(<<"saluting each other">>)
    /\ isLoading
    /\ calls = 1
    /\ Len(readers) = 1

====
